------------------------------ MODULE Spec2Model ------------------------------
(***************************************************************************)
(* Model of the XAgent / L3AGI compatibility shim.                         *)
(*                                                                         *)
(* The pipeline core is XAgentWrapper (xagent_integration/xagent_core.py): *)
(* run -> _execute_xagent_workflow -> _create_plan, _execute_plan,          *)
(* _reflect_on_result, with a conversation history.  ConversationalAgent   *)
(* (modified_l3agi/conversational.py) wraps a ConversationalXAgent          *)
(* (xagent_integration/l3agi_compatibility.py), a subclass of the core.    *)
(*                                                                         *)
(* A Python str is modelled as the sequence of its characters, so that     *)
(* slicing, concatenation, prefix and substring tests are computed and     *)
(* not assumed.  A Python dict is a function from its keys; dict.get is    *)
(* GetOr.  None is PyNone.  A call that may raise yields a record          *)
(* [raised, val]: val is the returned value, or str(e) of the exception.   *)
(* Timestamps and loggers are left out: no operation reads them.           *)
(***************************************************************************)
EXTENDS Integers, Sequences, FiniteSets, TLC

(***************************************************************************)
(* Bounds of the model.                                                    *)
(***************************************************************************)
\* number of run calls (direct or through chat) made on the instance
MaxRuns == 2
\* number of callers that may hold a call suspended at the backend
MaxTasks == 2

\* chat calls made one after the other on an agent whose memory is enabled
MaxChats == 3

\* calls made on the DialogueAgentWithTools instances, or on a ToolManager
MaxCalls == 3

(***************************************************************************)
(* String literals of the source, character by character.                  *)
(***************************************************************************)
\* xagent_core.py:162: "analyze"
AnalyzeAction == <<"a","n","a","l","y","z","e">>
\* xagent_core.py:164: "execute"
ExecuteAction == <<"e","x","e","c","u","t","e">>
\* xagent_core.py:166: "validate"
ValidateAction == <<"v","a","l","i","d","a","t","e">>
\* xagent_core.py:159: "unknown"
UnknownAction == <<"u","n","k","n","o","w","n">>
\* xagent_core.py:140: "planned_response"
PlannedResponse == <<"p","l","a","n","n","e","d","_","r","e","s","p","o","n","s","e">>
\* xagent_core.py:141: "result"
ResultTarget == <<"r","e","s","u","l","t">>
\* xagent_core.py:209: "mock_analyze"
MockAnalyze == <<"m","o","c","k","_","a","n","a","l","y","z","e">>
\* xagent_core.py:210: "mock_respond"
MockRespond == <<"m","o","c","k","_","r","e","s","p","o","n","d">>
\* xagent_core.py:210: "generated_response"
GeneratedResponse == <<"g","e","n","e","r","a","t","e","d","_","r","e","s","p","o","n","s","e">>
\* xagent_core.py:212: "mock_tool"
MockTool == <<"m","o","c","k","_","t","o","o","l">>
\* xagent_core.py:163: "Analysis of: "
AnalysisOf == <<"A","n","a","l","y","s","i","s"," ","o","f",":"," ">>
\* xagent_core.py:165: "Executed: "
Executed == <<"E","x","e","c","u","t","e","d",":"," ">>
\* xagent_core.py:167: "Validated: "
Validated == <<"V","a","l","i","d","a","t","e","d",":"," ">>
\* xagent_core.py:169: "Completed "
Completed == <<"C","o","m","p","l","e","t","e","d"," ">>
\* xagent_core.py:169: " on "
OnText == <<" ","o","n"," ">>
\* xagent_core.py:174: "No results to synthesize"
NoResults ==
    <<"N","o"," ","r","e","s","u","l","t","s"," ","t","o"," ","s","y","n","t","h","e","s","i",
      "z","e">>
\* xagent_core.py:176: "XAgent completed the following steps:\n"
StepsHeader ==
    <<"X","A","g","e","n","t"," ","c","o","m","p","l","e","t","e","d"," ","t","h","e"," ","f",
      "o","l","l","o","w","i","n","g"," ","s","t","e","p","s",":","\n">>
\* xagent_core.py:178: ". "
OrdinalSep == <<"."," ">>
\* xagent_core.py:178: "\n"
Newline == <<"\n">>
\* xagent_core.py:180: "\nTask completed successfully."
TaskCompleted ==
    <<"\n","T","a","s","k"," ","c","o","m","p","l","e","t","e","d"," ","s","u","c","c","e","s",
      "s","f","u","l","l","y",".">>
\* xagent_core.py:185: "\n[Reflection] Evaluated result for input: '"
ReflectionOpen ==
    <<"\n","[","R","e","f","l","e","c","t","i","o","n","]"," ","E","v","a","l","u","a","t","e",
      "d"," ","r","e","s","u","l","t"," ","f","o","r"," ","i","n","p","u","t",":"," ","'">>
\* xagent_core.py:185: "...'"
ReflectionClose == <<".",".",".","'">>
\* xagent_core.py:129: "Workflow execution error: "
WorkflowErrorMarker ==
    <<"W","o","r","k","f","l","o","w"," ","e","x","e","c","u","t","i","o","n"," ","e","r","r",
      "o","r",":"," ">>
\* xagent_core.py:109: "XAgent execution failed: "
ExecutionFailedMarker ==
    <<"X","A","g","e","n","t"," ","e","x","e","c","u","t","i","o","n"," ","f","a","i","l","e",
      "d",":"," ">>
\* AttributeError of plan.get / step.get on None (xagent_core.py:150, 159): "'NoneType' object has no attribute 'get'"
NoneHasNoGet ==
    <<"'","N","o","n","e","T","y","p","e","'"," ","o","b","j","e","c","t"," ","h","a","s"," ",
      "n","o"," ","a","t","t","r","i","b","u","t","e"," ","'","g","e","t","'">>
\* TypeError of iterating None (xagent_core.py:150): "'NoneType' object is not iterable"
NoneNotIterable ==
    <<"'","N","o","n","e","T","y","p","e","'"," ","o","b","j","e","c","t"," ","i","s"," ","n",
      "o","t"," ","i","t","e","r","a","b","l","e">>
\* conversational.py:31: "You are a helpful AI assistant that collaborates effectively with other agents."
DefaultAgentPrompt ==
    <<"Y","o","u"," ","a","r","e"," ","a"," ","h","e","l","p","f","u","l"," ","A","I"," ","a",
      "s","s","i","s","t","a","n","t"," ","t","h","a","t"," ","c","o","l","l","a","b","o","r",
      "a","t","e","s"," ","e","f","f","e","c","t","i","v","e","l","y"," ","w","i","t","h"," ",
      "o","t","h","e","r"," ","a","g","e","n","t","s",".">>
\* l3agi_compatibility.py:41: "Previous conversation:\n"
PreviousConversation ==
    <<"P","r","e","v","i","o","u","s"," ","c","o","n","v","e","r","s","a","t","i","o","n",":",
      "\n">>
\* l3agi_compatibility.py:43: "- "
Dash == <<"-"," ">>
\* l3agi_compatibility.py:43: ": "
ColonSp == <<":"," ">>
\* l3agi_compatibility.py:45: "\n\n"
BlankLine == <<"\n","\n">>
\* l3agi_compatibility.py:45: "\nCurrent message: "
CurrentMessage == <<"\n","C","u","r","r","e","n","t"," ","m","e","s","s","a","g","e",":"," ">>
\* l3agi_compatibility.py:50: "[Reflection]"
ReflectionTag == <<"[","R","e","f","l","e","c","t","i","o","n","]">>
\* conversational.py:86: "user"
UserRole == <<"u","s","e","r">>
\* conversational.py:87: "assistant"
AssistantRole == <<"a","s","s","i","s","t","a","n","t">>
\* conversational.py:76: "I apologize, but I encountered an error: "
Apology ==
    <<"I"," ","a","p","o","l","o","g","i","z","e",","," ","b","u","t"," ","I"," ","e","n","c",
      "o","u","n","t","e","r","e","d"," ","a","n"," ","e","r","r","o","r",":"," ">>
\* conversational.py:97: "system"
SystemRole == <<"s","y","s","t","e","m">>
\* conversational.py:98: "Team context: "
TeamContext == <<"T","e","a","m"," ","c","o","n","t","e","x","t",":"," ">>
\* l3agi_compatibility.py:90, str(e) of the AttributeError: "'Tool' object has no attribute '__name__'"
NoNameAttribute ==
    <<"'","T","o","o","l","'"," ","o","b","j","e","c","t"," ","h","a","s"," ","n","o"," ","a",
      "t","t","r","i","b","u","t","e"," ","'","_","_","n","a","m","e","_","_","'">>

(***************************************************************************)
(* Python values and string operations.                                    *)
(***************************************************************************)
\* Python's None
PyNone == [NoneType |-> TRUE]

\* a call's normal return
Returned(v) == [raised |-> FALSE, val |-> v]

\* a call that raises an Exception e; msg is str(e)
Raises(msg) == [raised |-> TRUE, val |-> msg]

\* d.get(k, default) on a dict
GetOr(d, k, default) == IF k \in DOMAIN d THEN d[k] ELSE default

Min(a, b) == IF a <= b THEN a ELSE b

\* s[:n]
Take(s, n) == SubSeq(s, 1, Min(n, Len(s)))

\* the offsets at which sub occurs in s
Occurrences(s, sub) ==
    IF sub = <<>> THEN 0..Len(s)
    ELSE {i \in 0..(Len(s) - Len(sub)) :
              s[i + 1] = sub[1] /\ SubSeq(s, i + 1, i + Len(sub)) = sub}

\* sub in s
Contains(s, sub) == Occurrences(s, sub) # {}

DigitChars == <<"0", "1", "2", "3", "4", "5", "6", "7", "8", "9">>

\* f"{i}" of a non-negative int: its decimal digits
RECURSIVE DecimalText(_)
DecimalText(n) ==
    IF n < 10 THEN <<DigitChars[n + 1]>>
    ELSE DecimalText(n \div 10) \o <<DigitChars[(n % 10) + 1]>>

(***************************************************************************)
(* XAgentWrapper: the plan / execute / reflect pipeline.                   *)
(***************************************************************************)
\* the number of characters of the input quoted by the reflection suffix
ReflectionQuoteLen == 50

\* a plan step {"action": a, "target": t}
Step(a, t) == [action |-> a, target |-> t]

\* a plan {"steps": steps, "tools_needed": names}
Plan(steps, names) == [steps |-> steps, tools_needed |-> names]

\* tool.__name__ if hasattr(tool, '__name__') else str(tool)
ToolName(tool) == IF "__name__" \in DOMAIN tool THEN tool["__name__"] ELSE tool["str"]

ToolNames(tools) == [i \in 1..Len(tools) |-> ToolName(tools[i])]

\* MockXAgent.create_plan
MockCreatePlan(input_text) ==
    Plan(<<Step(MockAnalyze, input_text), Step(MockRespond, GeneratedResponse)>>,
         <<MockTool>>)

\* FallbackPlan with one more execute step for each tool
FallbackPlanPerTool(input_text, tools) ==
    Plan(<<Step(AnalyzeAction, input_text), Step(ExecuteAction, PlannedResponse)>>
             \o [i \in 1..Len(tools) |-> Step(ExecuteAction, ToolName(tools[i]))]
             \o <<Step(ValidateAction, ResultTarget)>>,
         ToolNames(tools))

\* the fallback branch of XAgentWrapper._create_plan
FallbackPlan(input_text, tools) ==
    Plan(<<Step(AnalyzeAction, input_text),
           Step(ExecuteAction, PlannedResponse),
           Step(ValidateAction, ResultTarget)>>,
         ToolNames(tools))

\* hasattr(self.xagent, 'create_plan')
HasCreatePlan(backend) == backend \in {"MockXAgent", "XAgent"}

\* whether awaiting the backend's create_plan can suspend the caller: only
\* the library's planner does, MockXAgent.create_plan never awaits
Suspends(backend) == backend = "XAgent"

\* XAgentWrapper._create_plan; answer is what the library's create_plan
\* does when the backend is the library's agent
CreatePlan(backend, input_text, tools, answer) ==
    IF HasCreatePlan(backend)
    THEN IF backend = "MockXAgent" THEN Returned(MockCreatePlan(input_text)) ELSE answer
    ELSE Returned(FallbackPlan(input_text, tools))

\* StepLine without the validate branch
StepLineNoValidate(action, target) ==
    IF action = AnalyzeAction THEN AnalysisOf \o target
    ELSE IF action = ExecuteAction THEN Executed \o target
    ELSE Completed \o action \o OnText \o target

\* the line XAgentWrapper._execute_step makes of an action and a target
StepLine(action, target) ==
    IF action = AnalyzeAction THEN AnalysisOf \o target
    ELSE IF action = ExecuteAction THEN Executed \o target
    ELSE IF action = ValidateAction THEN Validated \o target
    ELSE Completed \o action \o OnText \o target

\* XAgentWrapper._execute_step; step.get raises on a step that is no dict
ExecuteStep(step) ==
    IF step = PyNone THEN Raises(NoneHasNoGet)
    ELSE Returned(StepLine(GetOr(step, "action", UnknownAction),
                           GetOr(step, "target", <<>>)))

RECURSIVE ExecuteSteps(_, _)
\* AfterStep with insert(0, ...) in place of append
AfterStepInFront(r, steps, results) ==
    IF r.raised THEN r ELSE ExecuteSteps(Tail(steps), <<r.val>> \o results)

\* one round of the for loop of XAgentWrapper._execute_plan, r being what
\* _execute_step did with the first of steps: its result is appended to
\* results and the loop goes on, or its exception ends the loop
AfterStep(r, steps, results) ==
    IF r.raised THEN r ELSE ExecuteSteps(Tail(steps), Append(results, r.val))

\* the for loop of XAgentWrapper._execute_plan: one step after the other
ExecuteSteps(steps, results) ==
    IF steps = <<>> THEN Returned(results)
    ELSE AfterStep(ExecuteStep(Head(steps)), steps, results)

\* the enumerate(results, 1) loop of XAgentWrapper._synthesize_results
RECURSIVE SynthesizeLoop(_, _, _)
SynthesizeLoop(results, i, synthesized) ==
    IF i > Len(results) THEN synthesized
    ELSE SynthesizeLoop(results, i + 1,
             synthesized \o DecimalText(i) \o OrdinalSep \o results[i] \o Newline)

\* XAgentWrapper._synthesize_results
SynthesizeResults(results) ==
    IF results = <<>> THEN NoResults
    ELSE SynthesizeLoop(results, 1, StepsHeader) \o TaskCompleted

\* the end of XAgentWrapper._execute_plan, r being what the loop did; the
\* results list is kept beside the text returned
AfterSteps(r) ==
    IF r.raised THEN r
    ELSE [raised |-> FALSE, val |-> SynthesizeResults(r.val), results |-> r.val]

\* plan.get("steps", []) and the loop over it
IterateSteps(steps) ==
    IF steps = PyNone THEN Raises(NoneNotIterable)
    ELSE AfterSteps(ExecuteSteps(steps, <<>>))

\* XAgentWrapper._execute_plan
ExecutePlan(plan) ==
    IF plan = PyNone THEN Raises(NoneHasNoGet)
    ELSE IterateSteps(GetOr(plan, "steps", <<>>))

\* ReflectionEnabled with the default False
ReflectionOffByDefault(memory_config) == GetOr(memory_config, "enable_reflection", FALSE)

\* self.memory_config.get("enable_reflection", True)
ReflectionEnabled(memory_config) == GetOr(memory_config, "enable_reflection", TRUE)

\* ReflectOnResult with the operands of + exchanged
ReflectInFront(result, original_input) ==
    ReflectionOpen \o Take(original_input, ReflectionQuoteLen) \o ReflectionClose \o result

\* XAgentWrapper._reflect_on_result
ReflectOnResult(result, original_input) ==
    result \o ReflectionOpen \o Take(original_input, ReflectionQuoteLen) \o ReflectionClose

\* WorkflowError without the marker: str(e) alone
WorkflowErrorBare(msg) == msg

\* the except branch of XAgentWrapper._execute_xagent_workflow
WorkflowError(msg) == WorkflowErrorMarker \o msg

\* XAgentWrapper._execute_xagent_workflow from the reflection phase on, r
\* being what planning and execution did.  failed, exec, results and
\* reflected record the path taken.
AfterExecution(r, input_text, memory_config) ==
    IF r.raised
    THEN [raised |-> FALSE, val |-> WorkflowError(r.val), failed |-> TRUE,
          exec |-> <<>>, results |-> <<>>, reflected |-> FALSE]
    ELSE IF ReflectionEnabled(memory_config)
    THEN [raised |-> FALSE, val |-> ReflectOnResult(r.val, input_text),
          failed |-> FALSE, exec |-> r.val, results |-> r.results,
          reflected |-> TRUE]
    ELSE [raised |-> FALSE, val |-> r.val, failed |-> FALSE, exec |-> r.val,
          results |-> r.results, reflected |-> FALSE]

\* XAgentWrapper._execute_xagent_workflow, given what _create_plan did
ExecuteWorkflow(input_text, created, memory_config) ==
    AfterExecution(IF created.raised THEN created ELSE ExecutePlan(created.val),
                   input_text, memory_config)

\* an AgentMessage (role, content)
Message(role, content) == [role |-> role, content |-> content]

\* RunEnter starting the history over with the new message
RunEnterFresh(history, input_text) == <<Message("user", input_text)>>

\* RunEnter without the append of the user message
RunEnterNoRecord(history, input_text) == history

\* XAgentWrapper.run up to the workflow: the user message is recorded
RunEnter(history, input_text) == Append(history, Message("user", input_text))

\* RunLeave with the error text raised to the caller instead of returned
RunLeaveRaising(history, wf) ==
    IF wf.raised \/ wf.failed
    THEN [history |-> history, ret |-> Raises(wf.val)]
    ELSE [history |-> Append(history, Message("assistant", wf.val)),
          ret |-> Returned(wf.val)]

\* XAgentWrapper.run after the workflow: the assistant message is recorded
\* and the response returned; an exception out of the workflow is turned
\* into the error text, with nothing recorded
RunLeave(history, wf) ==
    IF wf.raised
    THEN [history |-> history, ret |-> Returned(ExecutionFailedMarker \o wf.val)]
    ELSE [history |-> Append(history, Message("assistant", wf.val)),
          ret |-> Returned(wf.val)]

(***************************************************************************)
(* ConversationalXAgent and ConversationalAgent: the chat adapter.         *)
(***************************************************************************)
\* the number of history entries ConversationalAgent._prepare_context forwards
HistoryWindow == 5

\* the number of context messages _format_conversation_input formats
ContextWindow == 5

\* s[-n:]
LastN(s, n) == SubSeq(s, IF Len(s) > n THEN Len(s) - n + 1 ELSE 1, Len(s))

\* str.strip() removes these from both ends
Whitespace == {" ", "\n", "\t", "\r"}

RECURSIVE LStrip(_)
LStrip(s) == IF s # <<>> /\ Head(s) \in Whitespace THEN LStrip(Tail(s)) ELSE s

RECURSIVE RStrip(_)
RStrip(s) ==
    IF s # <<>> /\ s[Len(s)] \in Whitespace THEN RStrip(SubSeq(s, 1, Len(s) - 1)) ELSE s

\* s.strip()
Strip(s) == LStrip(RStrip(s))

\* s.split(sep)[0]: the text before the first occurrence of sep
BeforeFirst(s, sep) ==
    LET found == Occurrences(s, sep)
    IN  IF found = {} THEN s
        ELSE SubSeq(s, 1, CHOOSE i \in found : \A j \in found : i <= j)

\* the two context messages ConversationalAgent._prepare_context makes of
\* one history entry
EntryMessages(entry) ==
    << [role |-> UserRole, content |-> entry.user_message],
       [role |-> AssistantRole, content |-> entry.agent_response] >>

RECURSIVE HistoryMessages(_)
HistoryMessages(entries) ==
    IF entries = <<>> THEN <<>>
    ELSE EntryMessages(Head(entries)) \o HistoryMessages(Tail(entries))

\* ConversationalAgent._prepare_context
PrepareContext(memory_enabled, agent_history, context) ==
    LET recent == IF memory_enabled /\ agent_history # <<>>
                  THEN HistoryMessages(LastN(agent_history, HistoryWindow))
                  ELSE <<>>
        previous == IF context # PyNone /\ "previous_messages" \in DOMAIN context
                    THEN context["previous_messages"] ELSE <<>>
        team == IF context # PyNone /\ "team_context" \in DOMAIN context
                THEN << [role |-> SystemRole,
                         content |-> TeamContext \o context["team_context"]] >>
                ELSE <<>>
    IN  recent \o previous \o team

\* the loop of ConversationalXAgent._format_conversation_input over the
\* last context messages; msg.get raises on a message that is no dict
RECURSIVE ContextLines(_, _)
ContextLines(msgs, context_str) ==
    IF msgs = <<>> THEN Returned(context_str)
    ELSE IF Head(msgs) = PyNone THEN Raises(NoneHasNoGet)
    ELSE ContextLines(Tail(msgs),
             context_str \o Dash \o GetOr(Head(msgs), "role", UserRole) \o ColonSp
                         \o GetOr(Head(msgs), "content", <<>>) \o Newline)

\* the return statement of ConversationalXAgent._format_conversation_input
WithContext(context_str, system_prompt, message) ==
    IF context_str.raised THEN context_str
    ELSE Returned(system_prompt \o BlankLine \o context_str.val
                  \o CurrentMessage \o message)

\* ConversationalXAgent._format_conversation_input
FormatConversationInput(system_prompt, conversation_context, message) ==
    WithContext(IF conversation_context # <<>>
                THEN ContextLines(LastN(conversation_context, ContextWindow),
                                  PreviousConversation)
                ELSE Returned(<<>>),
                system_prompt, message)

\* ConversationalXAgent._format_conversation_output
FormatConversationOutput(response) ==
    IF Contains(response, ReflectionTag)
    THEN Strip(BeforeFirst(response, ReflectionTag))
    ELSE response

\* ChatError with its return statement left out
ChatErrorLogged(msg) == PyNone

\* the except branch of ConversationalAgent.chat
ChatError(msg) == Apology \o msg

\* ChatEntry with the response in the place of the user's message
ChatEntryOfResponse(message, response, context) ==
    [user_message |-> response, agent_response |-> response, context |-> context]

\* the entry ConversationalAgent.chat appends to its history
ChatEntry(message, response, context) ==
    [user_message |-> message, agent_response |-> response, context |-> context]

(***************************************************************************)
(* DialogueAgentWithTools and its pipeline DialogueAgentWithToolsXAgent.   *)
(***************************************************************************)

LowerOfChar ==
    LET UpperChars ==
                <<"A","B","C","D","E","F","G","H","I","J","K","L","M","N","O","P","Q","R","S","T","U","V",
                  "W","X","Y","Z">>
        LowerChars ==
                <<"a","b","c","d","e","f","g","h","i","j","k","l","m","n","o","p","q","r","s","t","u","v",
                  "w","x","y","z">>
    IN
    [c \in {UpperChars[k] : k \in 1..26} |->
        LowerChars[CHOOSE k \in 1..26 : UpperChars[k] = c]]

\* s.lower()
Lower(s) == [i \in 1..Len(s) |-> IF s[i] \in DOMAIN LowerOfChar THEN LowerOfChar[s[i]] ELSE s[i]]

\* sep.join(parts)
RECURSIVE Join(_, _)
Join(sep, parts) ==
    IF parts = <<>> THEN <<>>
    ELSE IF Len(parts) = 1 THEN parts[1]
    ELSE parts[1] \o sep \o Join(sep, Tail(parts))

\* str(tool)
ToolText(tool) == tool["str"]

\* hasattr(tool, 'description')
HasDescription(tool) == "description" \in DOMAIN tool

\* one line of _prepare_tool_context: tool.__name__ is read without a
\* fallback when the tool has a description
ToolDescriptionLine(tool) ==
    IF HasDescription(tool)
    THEN IF "__name__" \in DOMAIN tool
         THEN Returned(Dash \o tool["__name__"] \o ColonSp \o tool["description"])
         ELSE Raises(NoNameAttribute)
    ELSE Returned(Dash \o ToolText(tool))

\* DialogueAgentWithToolsXAgent._prepare_tool_context
PrepareToolContext(tools) ==
    LET \* l3agi_compatibility.py:85: "No tools available."
        NoToolsAvailable == <<"N","o"," ","t","o","o","l","s"," ","a","v","a","i","l","a","b","l","e",".">>
        \* l3agi_compatibility.py:94: "Available tools:\n"
        AvailableToolsHeader == <<"A","v","a","i","l","a","b","l","e"," ","t","o","o","l","s",":","\n">>
    IN
    IF tools = <<>> THEN Returned(NoToolsAvailable)
    ELSE IF \E i \in 1..Len(tools) : ToolDescriptionLine(tools[i]).raised
         THEN Raises(NoNameAttribute)
         ELSE Returned(AvailableToolsHeader
                           \o Join(Newline, [i \in 1..Len(tools) |->
                                                ToolDescriptionLine(tools[i]).val]))

\* the enhanced_message of DialogueAgentWithToolsXAgent.send
EnhancedMessage(role, description, tools, message) ==
    LET \* l3agi_compatibility.py:71-72: "\nAgent Role: "
        AgentRoleLine == <<"\n","A","g","e","n","t"," ","R","o","l","e",":"," ">>
        \* l3agi_compatibility.py:72-73: "\nDescription: "
        DescriptionLine == <<"\n","D","e","s","c","r","i","p","t","i","o","n",":"," ">>
        \* l3agi_compatibility.py:73-74: "\nAvailable Tools: "
        AvailableToolsLine == <<"\n","A","v","a","i","l","a","b","l","e"," ","T","o","o","l","s",":"," ">>
        \* l3agi_compatibility.py:74: ", "
        CommaSp == <<","," ">>
        \* l3agi_compatibility.py:74-76: "\n\nUser Message: "
        UserMessageLine == <<"\n","\n","U","s","e","r"," ","M","e","s","s","a","g","e",":"," ">>
    IN
    AgentRoleLine \o role \o DescriptionLine \o description \o AvailableToolsLine
        \o Join(CommaSp, [i \in 1..Len(tools) |-> ToolText(tools[i])])
        \o UserMessageLine \o message \o Newline

\* DialogueAgentWithToolsXAgent._format_dialogue_response
FormatDialogueResponse(agent_name, response) ==
    LET \* l3agi_compatibility.py:98: "["
        ResponseOpen == <<"[">>
        \* l3agi_compatibility.py:98: "]: "
        ResponseSep == <<"]",":"," ">>
    IN
    ResponseOpen \o agent_name \o ResponseSep \o response

\* DialogueAgentWithToolsXAgent.send on a pipeline that holds tools and
\* history; answer is what the library's create_plan does
PipelineSend(backend, agent_name, tools, memory_config, history, message, answer) ==
    LET \* dialogue_agent_with_tools.py:40: "assistant"
        DefaultAgentRole == <<"a","s","s","i","s","t","a","n","t">>
        \* dialogue_agent_with_tools.py:41: "Tool-enabled agent "
        ToolEnabledAgent == <<"T","o","o","l","-","e","n","a","b","l","e","d"," ","a","g","e","n","t"," ">>
    IN
    IF PrepareToolContext(tools).raised
    THEN [ret |-> PrepareToolContext(tools), history |-> history]
    ELSE LET input == EnhancedMessage(DefaultAgentRole, ToolEnabledAgent \o agent_name,
                                      tools, message)
             wf == ExecuteWorkflow(input, CreatePlan(backend, input, tools, answer),
                                   memory_config)
             lv == RunLeave(RunEnter(history, input), wf)
         IN  [ret |-> IF lv.ret.raised THEN lv.ret
                      ELSE Returned(FormatDialogueResponse(agent_name, lv.ret.val)),
              history |-> lv.history]

\* DialogueAgentWithTools._update_tool_stats over the tools from the i-th on
RECURSIVE UpdateToolStats(_, _, _, _)
UpdateToolStats(tools, i, lowered, stats) ==
    IF i > Len(tools) THEN stats
    ELSE LET tool_name == ToolName(tools[i])
         IN  UpdateToolStats(tools, i + 1, lowered,
                 IF Contains(lowered, Lower(tool_name))
                 THEN (tool_name :> (GetOr(stats, tool_name, 0) + 1)) @@ stats
                 ELSE stats)

\* the dialogue_history entry of a send (its timestamp left out)
DialogueEntry(message, response, tools) ==
    [message |-> message, response |-> response, tools_available |-> Len(tools)]

\* Matching with the comparison of the names left out
MatchingAny(tools, tool_name) == 1..Len(tools)

\* the indices of the tools that remove_tool's loop matches with tool_name
Matching(tools, tool_name) == {i \in 1..Len(tools) : ToolName(tools[i]) = tool_name}

\* list.pop(i), the list that is left
Popped(s, i) == SubSeq(s, 1, i - 1) \o SubSeq(s, i + 1, Len(s))

\* list.remove(x): the list without the first x, or the ValueError
Removed(s, x) ==
    LET \* dialogue_agent_with_tools.py:112, str(e) of the ValueError: "list.remove(x): x not in list"
        NotInList ==
                <<"l","i","s","t",".","r","e","m","o","v","e","(","x",")",":"," ","x"," ","n","o","t"," ",
                  "i","n"," ","l","i","s","t">>
    IN
    IF \E i \in 1..Len(s) : s[i] = x
    THEN Returned(Popped(s, CHOOSE i \in 1..Len(s) :
                                /\ s[i] = x
                                /\ \A j \in 1..(i - 1) : s[j] # x))
    ELSE Raises(NotInList)

\* DialogueAgentWithTools.get_available_tools
GetAvailableTools(tools, stats) ==
    LET \* dialogue_agent_with_tools.py:123: "No description available"
        NoDescriptionAvailable ==
                <<"N","o"," ","d","e","s","c","r","i","p","t","i","o","n"," ","a","v","a","i","l","a","b",
                  "l","e">>
    IN
    [i \in 1..Len(tools) |->
        [name |-> ToolName(tools[i]),
         description |-> GetOr(tools[i], "description", NoDescriptionAvailable),
         usage_count |-> GetOr(stats, ToolName(tools[i]), 0)]]

\* DialogueAgentWithTools.get_stats (last_activity, a timestamp, left out)
GetStats(agent_name, dialogue_history, tools, stats) ==
    [name |-> agent_name, total_dialogues |-> Len(dialogue_history),
     tools_count |-> Len(tools), tool_usage_stats |-> stats, backend |-> <<"X","A","g","e","n","t">>]

(***************************************************************************)
(* The values the callers and the planning library supply.                 *)
(***************************************************************************)
\* an input longer than the reflection suffix quotes
LongInput == [i \in 1..(ReflectionQuoteLen + 1) |-> IF i <= ReflectionQuoteLen THEN "a" ELSE "b"]

InputTexts == {<<>>, <<"5", "+", "3">>, LongInput}

\* a function object, named by its __name__
CalcTool == ("__name__" :> <<"c", "a", "l", "c">>) @@ ("str" :> <<"<", "f", "n", ">">>)

\* a plain string used as a tool, named by its string form
WebTool == ("str" :> <<"w", "e", "b">>)

ToolLists == {<<>>, <<CalcTool, WebTool>>}

SearchAction == <<"s", "e", "a", "r", "c", "h">>

\* a step without the "action" key, and one without the "target" key
TargetOnly(t) == ("target" :> t)

ActionOnly(a) == ("action" :> a)

\* a plan of ten steps, so that the last ordinal has two digits: every
\* action of the fixed mapping, another action, and steps that lack a key
MixedSteps(x) ==
    << Step(ValidateAction, ResultTarget), Step(SearchAction, x),
       TargetOnly(PlannedResponse), Step(ExecuteAction, ResultTarget),
       ActionOnly(AnalyzeAction), Step(AnalyzeAction, PlannedResponse),
       Step(ExecuteAction, PlannedResponse), Step(ValidateAction, SearchAction),
       ActionOnly(SearchAction), Step(AnalyzeAction, ResultTarget) >>

\* what the library's create_plan may do with input x: raise, return a
\* plan without steps, a plan holding a step that is no dict, or a plan
LibraryAnswers(x) ==
    { Raises(<<"d", "o", "w", "n">>),
      Returned(Plan(<<>>, <<>>)),
      Returned(Plan(<<Step(AnalyzeAction, x), PyNone>>, <<>>)),
      Returned(Plan(MixedSteps(x), <<>>)) }

ChatMessages == {<<>>, <<"H", "i">>}

\* the context argument of ConversationalAgent.chat: none, one that holds
\* a message, one that holds something that is no message
ChatContexts ==
    { PyNone,
      [previous_messages |-> << [role |-> UserRole, content |-> <<"y", "o">>] >>],
      [previous_messages |-> << PyNone >>] }

\* an object used as a tool that has a description and no __name__
DescribedTool == ("str" :> <<"t", "o", "o", "l">>) @@ ("description" :> <<"d", "b">>)

\* the tools add_tool is called with
AddableTools == {WebTool, DescribedTool}

\* the names remove_tool is called with, the last one the name of no tool
RemovableNames == {ToolName(CalcTool), ToolName(DescribedTool), <<"n", "o">>}

\* what the library's create_plan may do during a send: raise, or return a plan
PlannerAnswers ==
    { Raises(<<"d", "o", "w", "n">>),
      Returned(Plan(<<Step(AnalyzeAction, PlannedResponse), Step(SearchAction, ResultTarget)>>,
                    <<>>)) }

(***************************************************************************)
(* State.                                                                  *)
(***************************************************************************)
VARIABLES
    backend,               \* what self.xagent is
    kind,                  \* the object the callers hold
    tools,                 \* XAgentWrapper.tools
    memory_config,         \* XAgentWrapper.memory_config
    conversation_history,  \* XAgentWrapper.conversation_history
    system_prompt,         \* ConversationalXAgent.system_prompt
    conversation_context,  \* ConversationalXAgent.conversation_context
    memory_enabled,        \* ConversationalAgent.memory_enabled
    agent_history,         \* ConversationalAgent.conversation_history
    inflight,              \* per caller: the call suspended at create_plan
    nruns,                 \* run and chat calls made so far
    last,                  \* the call that returned last: its arguments,
                           \* the path it took and what it returned
    lists,                 \* the list objects that hold tools, by reference
    agents,                \* the DialogueAgentWithTools instances
    ncalls,                \* calls made on the agents, or on the ToolManager, so far
    registered_tools,      \* ToolManager.registered_tools
    tool_categories,       \* ToolManager.tool_categories
    held                   \* a list a caller got from get_memory and kept

vars == << backend, kind, tools, memory_config, conversation_history, system_prompt,
           conversation_context, memory_enabled, agent_history, inflight, nruns, last,
           lists, agents, ncalls, registered_tools, tool_categories, held >>

\* the state of one pipeline and of the ConversationalAgent around it
chatVars == << backend, kind, tools, memory_config, conversation_history, system_prompt,
               conversation_context, memory_enabled, agent_history, inflight, nruns >>

\* the state of the DialogueAgentWithTools instances and of the ToolManager
toolVars == << lists, agents, ncalls, registered_tools, tool_categories >>

Tasks == 1..MaxTasks

Idle == [op |-> "idle"]

NoCall == [op |-> "none"]

\* no call is suspended: the callers take turns
Quiescent == \A t \in Tasks : inflight[t] = Idle

\* XAgentWrapper.__init__ / _init_xagent, and ConversationalAgent.__init__
\* with ConversationalXAgent.__init__
Init ==
    /\ backend \in {"MockXAgent", "XAgent", "XAgentNoPlanner"}
    /\ kind \in {"XAgentWrapper", "ConversationalAgent"}
    /\ tools \in (IF kind = "XAgentWrapper" /\ ~HasCreatePlan(backend)
                  THEN ToolLists ELSE {<<>>})
    /\ memory_enabled \in (IF kind = "ConversationalAgent" THEN BOOLEAN ELSE {FALSE})
    /\ memory_config \in
           (IF kind = "ConversationalAgent"
            THEN {[enabled |-> memory_enabled]}
            ELSE {<<>>, [enable_reflection |-> TRUE], [enable_reflection |-> FALSE]})
    /\ system_prompt = (IF kind = "ConversationalAgent" THEN DefaultAgentPrompt ELSE <<>>)
    /\ conversation_history = <<>>
    /\ conversation_context = <<>>
    /\ agent_history = <<>>
    /\ inflight = [t \in Tasks |-> Idle]
    /\ nruns = 0
    /\ last = NoCall
    /\ lists = <<>>
    /\ agents = <<>>
    /\ ncalls = 0
    /\ registered_tools = <<>>
    /\ tool_categories = <<>>
    /\ held = NoCall

(***************************************************************************)
(* Operations.                                                             *)
(***************************************************************************)
\* the rest of a run call once _create_plan is over (xagent_core.py:117-126,
\* 97-106), and of the chat call around it (l3agi_compatibility.py:35,
\* conversational.py:61-71)
Finish(call, history, created) ==
    \E wf \in {ExecuteWorkflow(call.input, created, memory_config)} :
    \E lv \in {RunLeave(history, wf)} :
    \E response \in {IF call.op = "chat" THEN FormatConversationOutput(lv.ret.val)
                      ELSE lv.ret.val} :
        /\ conversation_history' = lv.history
        /\ agent_history' =
               IF call.op = "chat" /\ memory_enabled
               THEN Append(agent_history, ChatEntry(call.message, response, call.context))
               ELSE agent_history
        /\ last' = [op |-> call.op, input |-> call.input, created |-> created,
                    failed |-> wf.failed, exec |-> wf.exec, results |-> wf.results,
                    reflected |-> wf.reflected, histBefore |-> call.histBefore,
                    message |-> call.message, context |-> call.context,
                    run |-> lv.ret, ret |-> Returned(response)]

\* XAgentWrapper.run(x) by caller t, up to the return of a create_plan that
\* does not suspend, or to the suspension at the library's create_plan
Run(t, x) ==
    /\ kind = "XAgentWrapper"
    /\ nruns < MaxRuns
    /\ inflight[t] = Idle
    /\ nruns' = nruns + 1
    /\ LET call == [op |-> "run", input |-> x, histBefore |-> conversation_history,
                    message |-> x, context |-> PyNone]
       IN  IF Suspends(backend)
           THEN /\ conversation_history' = RunEnter(conversation_history, x)
                /\ inflight' = [inflight EXCEPT ![t] = call]
                /\ UNCHANGED << agent_history, last >>
           ELSE /\ Finish(call, RunEnter(conversation_history, x),
                          CreatePlan(backend, x, tools, PyNone))
                /\ UNCHANGED inflight
    /\ UNCHANGED << backend, kind, tools, memory_config, system_prompt,
                    conversation_context, memory_enabled >>
    /\ UNCHANGED << toolVars, held >>

\* ConversationalAgent.chat(message, context) by caller t, up to the same
\* point of the run call it makes
ChatCall(t, message, context) ==
    /\ kind = "ConversationalAgent"
    /\ inflight[t] = Idle
    /\ nruns' = nruns + 1
    /\ \E extended \in {conversation_context
                         \o PrepareContext(memory_enabled, agent_history, context)} :
       \E formatted \in {FormatConversationInput(system_prompt, extended, message)} :
           /\ conversation_context' = extended
           /\ IF formatted.raised
              THEN /\ last' = [op |-> "chat_error", message |-> message,
                               context |-> context,
                               ret |-> Returned(ChatError(formatted.val))]
                   /\ UNCHANGED << conversation_history, agent_history, inflight >>
              ELSE /\ IF Suspends(backend)
                      THEN /\ conversation_history' =
                                  RunEnter(conversation_history, formatted.val)
                           /\ inflight' =
                                  [inflight EXCEPT ![t] =
                                      [op |-> "chat", input |-> formatted.val,
                                       histBefore |-> conversation_history,
                                       message |-> message, context |-> context]]
                           /\ UNCHANGED << agent_history, last >>
                      ELSE /\ Finish([op |-> "chat", input |-> formatted.val,
                                      histBefore |-> conversation_history,
                                      message |-> message, context |-> context],
                                     RunEnter(conversation_history, formatted.val),
                                     CreatePlan(backend, formatted.val, tools, PyNone))
                           /\ UNCHANGED inflight
    /\ UNCHANGED << backend, kind, tools, memory_config, system_prompt, memory_enabled >>
    /\ UNCHANGED << toolVars, held >>

\* a chat call, of the MaxRuns calls that are made
Chat(t, message, context) == nruns < MaxRuns /\ ChatCall(t, message, context)

\* Resume that also drops the calls of the other callers that are suspended
ResumeAlone(t, answer) ==
    /\ inflight[t] # Idle
    /\ Finish(inflight[t], conversation_history,
              CreatePlan(backend, inflight[t].input, tools, answer))
    /\ inflight' = [u \in Tasks |-> Idle]
    /\ UNCHANGED << backend, kind, tools, memory_config, system_prompt,
                    conversation_context, memory_enabled, nruns >>
    /\ UNCHANGED << toolVars, held >>

\* the library's create_plan answers caller t, whose call runs to its end
Resume(t, answer) ==
    /\ inflight[t] # Idle
    /\ Finish(inflight[t], conversation_history,
              CreatePlan(backend, inflight[t].input, tools, answer))
    /\ inflight' = [inflight EXCEPT ![t] = Idle]
    /\ UNCHANGED << backend, kind, tools, memory_config, system_prompt,
                    conversation_context, memory_enabled, nruns >>
    /\ UNCHANGED << toolVars, held >>

\* list.clear()
Cleared(history) == <<>>

\* XAgentWrapper.clear_memory; dropped is the number of messages it removed
ClearMemory ==
    /\ kind = "XAgentWrapper"
    /\ conversation_history' = Cleared(conversation_history)
    /\ last' = [op |-> "clear_memory", ret |-> Returned(PyNone),
                dropped |-> Len(conversation_history)]
    /\ UNCHANGED << backend, kind, tools, memory_config, system_prompt,
                    conversation_context, memory_enabled, agent_history, inflight, nruns >>
    /\ UNCHANGED << toolVars, held >>

\* XAgentWrapper.get_memory returns the list object itself; afterClear tells
\* whether the call before it was clear_memory
GetMemory ==
    /\ kind = "XAgentWrapper"
    /\ last' = [op |-> "get_memory", ret |-> Returned("conversation_history"),
                afterClear |-> (last.op = "clear_memory"),
                dropped |-> IF last.op = "clear_memory" THEN last.dropped ELSE 0]
    /\ UNCHANGED << backend, kind, tools, memory_config, conversation_history,
                    system_prompt, conversation_context, memory_enabled, agent_history,
                    inflight, nruns >>
    /\ UNCHANGED << toolVars, held >>

\* PipelineCleared with the call on the pipeline left out
PipelineKept(history) == history

\* the XAgentWrapper.clear_memory that ConversationalAgent.clear_memory calls
\* on its pipeline
PipelineCleared(history) == Cleared(history)

\* ConversationalAgent.clear_memory
AgentClearMemory ==
    /\ kind = "ConversationalAgent"
    /\ agent_history' = Cleared(agent_history)
    /\ conversation_history' = PipelineCleared(conversation_history)
    /\ last' = [op |-> "clear_memory", ret |-> Returned(PyNone),
                dropped |-> Len(agent_history)]
    /\ UNCHANGED << backend, kind, tools, memory_config, system_prompt,
                    conversation_context, memory_enabled, inflight, nruns >>
    /\ UNCHANGED << toolVars, held >>

\* ConversationalAgent.get_memory returns the list object itself
AgentGetMemory ==
    /\ kind = "ConversationalAgent"
    /\ last' = [op |-> "get_memory", ret |-> Returned("agent_history"),
                afterClear |-> (last.op = "clear_memory"),
                dropped |-> IF last.op = "clear_memory" THEN last.dropped ELSE 0]
    /\ UNCHANGED << backend, kind, tools, memory_config, conversation_history,
                    system_prompt, conversation_context, memory_enabled, agent_history,
                    inflight, nruns >>
    /\ UNCHANGED << toolVars, held >>

\* the list a returned reference denotes, as it is now
Deref(ref) == IF ref = "agent_history" THEN agent_history ELSE conversation_history

\* the call that returned last was a call of op, and no call was made since
JustReturned(op) == Quiescent /\ last.op = op

\* the callers take turns: a call starts when no other is suspended
Next ==
    \/ Quiescent /\ \E t \in Tasks, x \in InputTexts : Run(t, x)
    \/ Quiescent /\ \E t \in Tasks, m \in ChatMessages, c \in ChatContexts : Chat(t, m, c)
    \/ \E t \in Tasks : /\ inflight[t] # Idle
                          /\ \E a \in LibraryAnswers(inflight[t].input) : Resume(t, a)
    \/ Quiescent /\ ClearMemory
    \/ Quiescent /\ GetMemory
    \/ Quiescent /\ AgentClearMemory
    \/ Quiescent /\ AgentGetMemory

Spec == Init /\ [][Next]_vars

(***************************************************************************)
(* Callers that do not take turns: chat calls issued together, as by       *)
(* asyncio.gather.                                                         *)
(***************************************************************************)
ConcurrentInit == Init /\ kind = "ConversationalAgent"

\* the library answers the suspended call of caller t
Answered(t) ==
    /\ inflight[t] # Idle
    /\ \E a \in LibraryAnswers(inflight[t].input) : Resume(t, a)

\* a caller starts a chat call with a plain text message whether or not
\* other calls are suspended; the memory is read once all have returned
ConcurrentNext ==
    \/ \E t \in Tasks, m \in ChatMessages : Chat(t, m, PyNone)
    \/ \E t \in Tasks : Answered(t)
    \/ Quiescent /\ AgentGetMemory

ConcurrentSpec == ConcurrentInit /\ [][ConcurrentNext]_vars

(***************************************************************************)
(* run and clear_memory calls on one XAgentWrapper that do not take turns.  *)
(***************************************************************************)
InterleavedInit == Init /\ kind = "XAgentWrapper"

\* a run starts, the library answers a suspended run, or the memory is
\* cleared, whether or not other runs are suspended
InterleavedNext ==
    \/ \E t \in Tasks, x \in InputTexts : Run(t, x)
    \/ \E t \in Tasks : Answered(t)
    \/ ClearMemory

InterleavedSpec == InterleavedInit /\ [][InterleavedNext]_vars

(***************************************************************************)
(* Chat calls without a context, one after the other, on an agent that     *)
(* keeps its memory.                                                       *)
(***************************************************************************)
ForwardingInit == Init /\ kind = "ConversationalAgent" /\ memory_enabled

ForwardingNext ==
    \/ /\ Quiescent
       /\ nruns < MaxChats
       /\ \E t \in Tasks, m \in ChatMessages : ChatCall(t, m, PyNone)
    \/ \E t \in Tasks : Answered(t)

ForwardingSpec == ForwardingInit /\ [][ForwardingNext]_vars

(***************************************************************************)
(* Chat calls whose message may be the text of the reflection tag.         *)
(***************************************************************************)
TaggedInit == Init /\ kind = "ConversationalAgent"

TaggedNext ==
    \/ /\ Quiescent
       /\ \E t \in Tasks, m \in ChatMessages \cup {ReflectionTag} : Chat(t, m, PyNone)
    \/ \E t \in Tasks : Answered(t)

TaggedSpec == TaggedInit /\ [][TaggedNext]_vars

(***************************************************************************)
(* A caller that keeps what get_memory returned.                           *)
(***************************************************************************)
\* memory = agent.get_memory(): the caller binds the returned list to a
\* name of its own; seen is what the list held when it was returned
KeepMemory ==
    /\ JustReturned("get_memory")
    /\ held = NoCall
    /\ held' = [op |-> "held", ref |-> last.ret.val, seen |-> Deref(last.ret.val)]
    /\ UNCHANGED << chatVars, last, toolVars >>

MemoryNext ==
    \/ Next
    \/ KeepMemory

MemorySpec == Init /\ [][MemoryNext]_vars

(***************************************************************************)
(* DialogueAgentWithTools: two instances a caller built from one list.     *)
(***************************************************************************)
Instances == {"first", "second"}

\* the name argument of the constructor
AgentName(i) == IF i = "first" THEN <<"A">> ELSE <<"B">>

\* the list object the caller passes as tools
GivenList == [cell |-> "given"]

\* the list object DialogueAgentWithTools.__init__ makes with []
OwnList(i) == [cell |-> "own", of |-> i]

\* the list object XAgentWrapper.__init__ makes with []
InnerList(i) == [cell |-> "inner", of |-> i]

\* tools or []: the very list when it holds something, else a new one
OrFresh(ref, content, fresh) == IF content # <<>> THEN ref ELSE fresh

\* DialogueAgentWithTools.__init__(name, system_message, tools) with
\* DialogueAgentWithToolsXAgent.__init__ and XAgentWrapper.__init__
Built(i, given) ==
    [tools |-> OrFresh(GivenList, given, OwnList(i)),
     xtools |-> OrFresh(OrFresh(GivenList, given, OwnList(i)), given, InnerList(i)),
     dialogue_history |-> <<>>,
     tool_usage_stats |-> <<>>,
     history |-> <<>>]

\* two agents built one after the other from the same tools list
DialogueInit ==
    LET ListRefs == {GivenList} \cup {OwnList(i) : i \in Instances} \cup {InnerList(i) : i \in Instances}
    IN
    /\ backend \in {"MockXAgent", "XAgent", "XAgentNoPlanner"}
    /\ kind = "DialogueAgentWithTools"
    /\ \E given \in ToolLists :
           /\ lists = [r \in ListRefs |-> IF r = GivenList THEN given ELSE <<>>]
           /\ agents = [i \in Instances |-> Built(i, given)]
    /\ tools = <<>>
    /\ memory_enabled = FALSE
    /\ memory_config = <<>>
    /\ system_prompt = <<>>
    /\ conversation_history = <<>>
    /\ conversation_context = <<>>
    /\ agent_history = <<>>
    /\ inflight = [t \in Tasks |-> Idle]
    /\ nruns = 0
    /\ last = NoCall
    /\ ncalls = 0
    /\ registered_tools = <<>>
    /\ tool_categories = <<>>
    /\ held = NoCall

\* self.tools and self.xagent.tools of instance i, as they are now
ToolsOf(i) == lists[agents[i].tools]

PipelineToolsOf(i) == lists[agents[i].xtools]

\* DialogueAgentWithTools.send(message) on instance i. The callers take
\* turns, so the call suspended at the library's create_plan is the only
\* one and goes on with the library's answer.
Send(i, message, answer) ==
    LET \* dialogue_agent_with_tools.py:78: "I encountered an error processing your message: "
        SendApology ==
                <<"I"," ","e","n","c","o","u","n","t","e","r","e","d"," ","a","n"," ","e","r","r","o","r",
                  " ","p","r","o","c","e","s","s","i","n","g"," ","y","o","u","r"," ","m","e","s","s","a",
                  "g","e",":"," ">>
    IN
    /\ kind = "DialogueAgentWithTools"
    /\ ncalls < MaxCalls
    /\ ncalls' = ncalls + 1
    /\ \E r \in {PipelineSend(backend, AgentName(i), PipelineToolsOf(i), memory_config,
                              agents[i].history, message, answer)} :
           /\ agents' =
                  [agents EXCEPT ![i] =
                      IF r.ret.raised
                      THEN [@ EXCEPT !.history = r.history]
                      ELSE [@ EXCEPT
                               !.history = r.history,
                               !.dialogue_history =
                                   Append(@, DialogueEntry(message, r.ret.val, ToolsOf(i))),
                               !.tool_usage_stats =
                                   UpdateToolStats(ToolsOf(i), 1, Lower(r.ret.val), @)]]
           /\ last' = [op |-> "send", agent |-> i, message |-> message,
                       error |-> IF r.ret.raised THEN r.ret.val ELSE PyNone,
                       ret |-> Returned(IF r.ret.raised THEN SendApology \o r.ret.val
                                        ELSE r.ret.val)]
    /\ UNCHANGED << chatVars, lists, registered_tools, tool_categories, held >>

\* DialogueAgentWithTools.add_tool(tool) on instance i, description left
\* at its default
AddTool(i, tool) ==
    /\ kind = "DialogueAgentWithTools"
    /\ ncalls < MaxCalls
    /\ ncalls' = ncalls + 1
    /\ \E appended \in {[lists EXCEPT ![agents[i].tools] = Append(@, tool)]} :
           lists' = [appended EXCEPT ![agents[i].xtools] = Append(@, tool)]
    /\ last' = [op |-> "add_tool", agent |-> i, tool |-> tool, error |-> PyNone,
                ret |-> Returned(PyNone)]
    /\ UNCHANGED << chatVars, agents, registered_tools, tool_categories, held >>

\* DialogueAgentWithTools.remove_tool(tool_name) on instance i
RemoveTool(i, tool_name) ==
    /\ kind = "DialogueAgentWithTools"
    /\ ncalls < MaxCalls
    /\ ncalls' = ncalls + 1
    /\ IF Matching(ToolsOf(i), tool_name) = {}
       THEN /\ last' = [op |-> "remove_tool", agent |-> i, tool_name |-> tool_name,
                        error |-> PyNone, ret |-> Returned(FALSE)]
            /\ UNCHANGED lists
       ELSE \E k \in {CHOOSE k \in Matching(ToolsOf(i), tool_name) :
                          \A j \in Matching(ToolsOf(i), tool_name) : k <= j} :
            \E popped \in {[lists EXCEPT ![agents[i].tools] = Popped(@, k)]} :
            \E rest \in {Removed(popped[agents[i].xtools], ToolsOf(i)[k])} :
                /\ lists' = IF rest.raised THEN popped
                            ELSE [popped EXCEPT ![agents[i].xtools] = rest.val]
                /\ last' = [op |-> "remove_tool", agent |-> i, tool_name |-> tool_name,
                            error |-> IF rest.raised THEN rest.val ELSE PyNone,
                            ret |-> IF rest.raised THEN rest ELSE Returned(TRUE)]
    /\ UNCHANGED << chatVars, agents, registered_tools, tool_categories, held >>

\* DialogueAgentWithTools.clear_history on instance i
ClearHistory(i) ==
    /\ kind = "DialogueAgentWithTools"
    /\ ncalls < MaxCalls
    /\ ncalls' = ncalls + 1
    /\ agents' = [agents EXCEPT ![i] = [@ EXCEPT !.dialogue_history = Cleared(@),
                                                 !.history = Cleared(@)]]
    /\ last' = [op |-> "clear_history", agent |-> i, error |-> PyNone,
                ret |-> Returned(PyNone)]
    /\ UNCHANGED << chatVars, lists, registered_tools, tool_categories, held >>

\* the calls a caller makes, one after the other, on the agents it built
DialogueNext ==
    \/ \E i \in Instances, m \in ChatMessages :
       \E answer \in (IF Suspends(backend) THEN PlannerAnswers ELSE {PyNone}) :
           Send(i, m, answer)
    \/ \E i \in Instances, tool \in AddableTools : AddTool(i, tool)
    \/ \E i \in Instances, n \in RemovableNames : RemoveTool(i, n)
    \/ \E i \in Instances : ClearHistory(i)

DialogueSpec == DialogueInit /\ [][DialogueNext]_vars

(***************************************************************************)
(* The two adapter entry points, chat and send, each on an agent of its    *)
(* kind.                                                                   *)
(***************************************************************************)
AdapterInit == (Init /\ kind = "ConversationalAgent") \/ DialogueInit

\* chat calls with every message and context, and send calls with every
\* message on agents whose tool lists add_tool and remove_tool vary
AdapterNext ==
    \/ Quiescent /\ \E t \in Tasks, m \in ChatMessages, c \in ChatContexts : Chat(t, m, c)
    \/ \E t \in Tasks : Answered(t)
    \/ \E i \in Instances, m \in ChatMessages :
       \E answer \in (IF Suspends(backend) THEN PlannerAnswers ELSE {PyNone}) :
           Send(i, m, answer)
    \/ \E i \in Instances, tool \in AddableTools : AddTool(i, tool)
    \/ \E i \in Instances, n \in RemovableNames : RemoveTool(i, n)

AdapterSpec == AdapterInit /\ [][AdapterNext]_vars

(***************************************************************************)
(* ToolManager.                                                            *)
(***************************************************************************)
\* a second function object whose __name__ is that of CalcTool
OtherCalcTool == ("__name__" :> <<"c", "a", "l", "c">>) @@ ("str" :> <<"<", "f", "2", ">">>)

\* the tools register_tool is called with
RegistrableTools == {CalcTool, OtherCalcTool, WebTool, DescribedTool}

\* the categories register_tool is called with
Categories == {<<"g", "e", "n", "e", "r", "a", "l">>, <<"m", "a", "t", "h">>}

\* the categories looked up, the last one never registered under
LookedUp == Categories \cup {<<"n", "o", "n", "e">>}

\* ToolManager.__init__
ManagerInit ==
    /\ kind = "ToolManager"
    /\ registered_tools = <<>>
    /\ tool_categories = <<>>
    /\ ncalls = 0
    /\ last = NoCall
    /\ backend = "MockXAgent"
    /\ tools = <<>>
    /\ memory_enabled = FALSE
    /\ memory_config = <<>>
    /\ system_prompt = <<>>
    /\ conversation_history = <<>>
    /\ conversation_context = <<>>
    /\ agent_history = <<>>
    /\ inflight = [t \in Tasks |-> Idle]
    /\ nruns = 0
    /\ lists = <<>>
    /\ agents = <<>>
    /\ held = NoCall

\* the registered_tools entry register_tool writes (registered_at left out)
Registration(tool, category) ==
    LET \* dialogue_agent_with_tools.py:232: "No description"
        NoDescription == <<"N","o"," ","d","e","s","c","r","i","p","t","i","o","n">>
    IN
    [tool |-> tool, category |-> category,
     description |-> GetOr(tool, "description", NoDescription)]

\* ToolManager.register_tool(tool, category), description left at its default
RegisterTool(tool, category) ==
    /\ kind = "ToolManager"
    /\ ncalls < MaxCalls
    /\ ncalls' = ncalls + 1
    /\ registered_tools' = (ToolName(tool) :> Registration(tool, category)) @@ registered_tools
    /\ tool_categories' =
           IF category \notin DOMAIN tool_categories
           THEN (category :> <<ToolName(tool)>>) @@ tool_categories
           ELSE [tool_categories EXCEPT ![category] = Append(@, ToolName(tool))]
    /\ last' = [op |-> "register_tool", tool |-> tool, category |-> category,
                ret |-> Returned(PyNone)]
    /\ UNCHANGED << chatVars, lists, agents, held >>

\* the loop of get_tools_by_category over the names from the i-th on
RECURSIVE CollectTools(_, _, _, _)
CollectTools(registered, names, i, found) ==
    IF i > Len(names) THEN found
    ELSE CollectTools(registered, names, i + 1,
                      IF names[i] \in DOMAIN registered
                      THEN Append(found, registered[names[i]].tool)
                      ELSE found)

\* ToolManager.get_tools_by_category(category)
GetToolsByCategory(registered, categories, category) ==
    IF category \notin DOMAIN categories THEN <<>>
    ELSE CollectTools(registered, categories[category], 1, <<>>)

ManagerNext == \E tool \in RegistrableTools, category \in Categories : RegisterTool(tool, category)

ManagerSpec == ManagerInit /\ [][ManagerNext]_vars

(***************************************************************************)
(* Properties.                                                             *)
(***************************************************************************)
\* the call that returned last was a run call, made directly or by chat
RunReturned == JustReturned("run") \/ JustReturned("chat")

\* p is a prefix of s
StartsWith(s, p) == Len(p) <= Len(s) /\ SubSeq(s, 1, Len(p)) = p

\* p is a suffix of s
EndsWith(s, p) == Len(p) <= Len(s) /\ SubSeq(s, Len(s) - Len(p) + 1, Len(s)) = p

\* v is a str
IsText(v) == v # PyNone /\ \A i \in DOMAIN v : v[i] \in STRING

\* the messages run(x) adds to a history when it returns ret
RunMessages(x, ret) == << Message("user", x), Message("assistant", ret) >>

\* an earlier run call on the instance failed: its error text is in the
\* history the last call found
PriorFailure ==
    \E i \in 1..Len(last.histBefore) :
        /\ last.histBefore[i].role = "assistant"
        /\ StartsWith(last.histBefore[i].content, WorkflowErrorMarker)

\* the steps of the plan the last run call executed
LastSteps == GetOr(last.created.val, "steps", <<>>)

\* "Task completed successfully."
CompletionSentence == Tail(TaskCompleted)

\* the suffix the reflection phase adds for input x
ReflectionSuffix(x) ==
    ReflectionOpen
        \o (IF Len(x) <= ReflectionQuoteLen THEN x
            ELSE [i \in 1..ReflectionQuoteLen |-> x[i]])
        \o ReflectionClose

\* C1: run returns a text and raises nothing, whatever the backend's plan
\* creation did (raised, returned a malformed plan, made a step fail).
C1_RunReturnsText ==
    RunReturned => ~last.run.raised /\ IsText(last.run.val)

\* a run call returned although the backend's create_plan raised
C1_Witness ==
    /\ RunReturned
    /\ last.created.raised
    /\ IsText(last.run.val)

\* C2: a run call made in turn appends exactly two messages to the history
\* it found: the user message holding the input, then the assistant message
\* holding the text it returned, also when the workflow failed.
C2_RunAppendsTwo ==
    RunReturned =>
        conversation_history = last.histBefore \o RunMessages(last.input, last.run.val)

\* a second run call in a row returned after its workflow failed
C2_Witness ==
    /\ RunReturned
    /\ last.failed
    /\ Len(last.histBefore) >= 2
    /\ Len(conversation_history) = Len(last.histBefore) + 2

\* C3: with no tools and the stand-in backend, run(x) contains "Analysis
\* of: x", "Executed: planned_response" and "Validated: result", and ends
\* with "Task completed successfully." followed only by the reflection
\* suffix when reflection is enabled.
C3_StandInRunText ==
    (JustReturned("run") /\ backend = "MockXAgent" /\ tools = <<>>) =>
        /\ Contains(last.run.val, AnalysisOf \o last.input)
        /\ Contains(last.run.val, Executed \o PlannedResponse)
        /\ Contains(last.run.val, Validated \o ResultTarget)
        /\ IF ReflectionEnabled(memory_config)
           THEN EndsWith(last.run.val, CompletionSentence \o ReflectionSuffix(last.input))
           ELSE EndsWith(last.run.val, CompletionSentence)

\* C4: a run call whose plan creation or step execution raised returns a
\* text that begins with the error marker; a later run call that does not
\* fail finds the failed call's messages in the history, adds its own two,
\* and returns the text its own plan and input give.
C4_FailureIsText ==
    /\ (RunReturned /\ last.failed) =>
           StartsWith(last.run.val, WorkflowErrorMarker)
    /\ (RunReturned /\ ~last.failed /\ PriorFailure) =>
           /\ ~StartsWith(last.run.val, WorkflowErrorMarker)
           /\ last.run.val = (IF last.reflected
                              THEN last.exec \o ReflectionSuffix(last.input)
                              ELSE last.exec)
           /\ (LastSteps # <<>> => EndsWith(last.exec, CompletionSentence))
           /\ conversation_history =
                  last.histBefore \o RunMessages(last.input, last.run.val)

\* a run call succeeded after an earlier one on the instance had failed
C4_Witness ==
    /\ RunReturned
    /\ ~last.failed
    /\ LastSteps # <<>>
    /\ PriorFailure

\* C5: get_memory right after clear_memory returns an empty list, however
\* many messages were recorded before; ConversationalAgent.clear_memory
\* empties the agent's history and the wrapped pipeline's history.
C5_ClearedMemoryIsEmpty ==
    /\ (JustReturned("get_memory") /\ last.afterClear) => Deref(last.ret.val) = <<>>
    /\ JustReturned("clear_memory") =>
           /\ conversation_history = <<>>
           /\ agent_history = <<>>

\* a ConversationalAgent with two recorded chats was cleared and then read
C5_Witness ==
    /\ kind = "ConversationalAgent"
    /\ JustReturned("get_memory")
    /\ last.afterClear
    /\ last.dropped >= 2
    /\ Deref(last.ret.val) = <<>>

\* p is a prefix of s and shorter than s
IsStrictPrefix(p, s) == Len(p) < Len(s) /\ SubSeq(s, 1, Len(p)) = p

\* C6: the reflection phase only appends: the text the execute phase made
\* is a strict prefix of the reflected result run returns.
C6_ReflectionAppends ==
    (RunReturned /\ last.reflected) => IsStrictPrefix(last.exec, last.run.val)

\* a synthesis of several steps was reflected on
C6_Witness ==
    /\ RunReturned
    /\ last.reflected
    /\ Len(last.results) >= 2
    /\ IsStrictPrefix(last.exec, last.run.val)

\* C7: unless memory_config sets enable_reflection, run returns the
\* execute-phase text followed by the suffix quoting the input, cut to its
\* first 50 characters when it is longer; when memory_config sets
\* enable_reflection to false, run returns the execute-phase text itself.
C7_ReflectionByDefault ==
    (RunReturned /\ ~last.failed) =>
        IF "enable_reflection" \in DOMAIN memory_config
           /\ memory_config["enable_reflection"] = FALSE
        THEN last.run.val = last.exec
        ELSE \E n \in 0..ReflectionQuoteLen :
                 /\ n = Len(last.input) \/ (n = ReflectionQuoteLen /\ n < Len(last.input))
                 /\ last.run.val = last.exec \o ReflectionOpen
                                       \o [i \in 1..n |-> last.input[i]]
                                       \o ReflectionClose

\* a run with the default configuration quoted a cut input
C7_Witness ==
    /\ RunReturned
    /\ ~last.failed
    /\ memory_config = <<>>
    /\ Len(last.input) > ReflectionQuoteLen
    /\ EndsWith(last.run.val, ReflectionClose)

\* C8: without a planner in the backend, the plan of run(x) has exactly the
\* steps analyze/x, execute/planned_response, validate/result, in this
\* order, on every call and for every tool list; the tools only give the
\* plan's tools_needed.
C8_FallbackPlanIsFixed ==
    (RunReturned /\ ~HasCreatePlan(backend)) =>
        /\ ~last.created.raised
        /\ last.created.val["steps"] =
               << [action |-> AnalyzeAction, target |-> last.input],
                  [action |-> ExecuteAction, target |-> PlannedResponse],
                  [action |-> ValidateAction, target |-> ResultTarget] >>
        /\ Len(last.created.val["tools_needed"]) = Len(tools)
        /\ \A i \in 1..Len(tools) :
               last.created.val["tools_needed"][i] \in {tools[i][k] : k \in DOMAIN tools[i]}

\* a later call on an instance that holds tools planned without a planner
C8_Witness ==
    /\ RunReturned
    /\ ~HasCreatePlan(backend)
    /\ tools # <<>>
    /\ Len(last.histBefore) >= 2
    /\ Len(last.created.val["steps"]) = 3

\* the value of a decimal numeral
RECURSIVE DecimalValue(_)
DecimalValue(digits) ==
    IF digits = <<>> THEN 0
    ELSE 10 * DecimalValue(SubSeq(digits, 1, Len(digits) - 1))
         + (CHOOSE d \in 0..9 : DigitChars[d + 1] = digits[Len(digits)])

\* the number of digits of i
Width(i) == IF i < 10 THEN 1 ELSE IF i < 100 THEN 2 ELSE 3

\* the offset in the synthesis at which the entry of step i starts
RECURSIVE EntryOffset(_, _)
EntryOffset(i, lines) ==
    IF i = 1 THEN Len(StepsHeader)
    ELSE EntryOffset(i - 1, lines)
         + Width(i - 1) + Len(OrdinalSep) + Len(lines[i - 1]) + Len(Newline)

\* text holds, at the offset of entry i, the numeral of i, ". ", the line
\* and a newline
HasEntry(text, i, lines) ==
    LET at == EntryOffset(i, lines)
        w == Width(i)
    IN  /\ at + w + Len(OrdinalSep) + Len(lines[i]) + Len(Newline) <= Len(text)
        /\ \A k \in 1..w : text[at + k] \in {DigitChars[d] : d \in 1..10}
        /\ DecimalValue(SubSeq(text, at + 1, at + w)) = i
        /\ SubSeq(text, at + w + 1, at + w + Len(OrdinalSep)) = OrdinalSep
        /\ SubSeq(text, at + w + Len(OrdinalSep) + 1,
                  at + w + Len(OrdinalSep) + Len(lines[i])) = lines[i]
        /\ text[at + w + Len(OrdinalSep) + Len(lines[i]) + 1] = "\n"

\* steps with the steps at i and j exchanged
Swapped(steps, i, j) ==
    [k \in 1..Len(steps) |-> IF k = i THEN steps[j] ELSE IF k = j THEN steps[i] ELSE steps[k]]

\* C9: the steps are executed one after the other in the order of the
\* plan: result i is the line of step i, the synthesis numbers the lines
\* 1..N in that order, and exchanging two steps of the plan exchanges the
\* two lines and nothing else.
C9_StepOrderKept ==
    (RunReturned /\ ~last.failed) =>
        /\ Len(last.results) = Len(LastSteps)
        /\ \A i \in 1..Len(LastSteps) :
               /\ last.results[i] = ExecuteStep(LastSteps[i]).val
               /\ HasEntry(last.exec, i, last.results)
        /\ \A i, j \in 1..Len(LastSteps) :
               ExecuteSteps(Swapped(LastSteps, i, j), <<>>).val
                   = Swapped(last.results, i, j)

\* a plan whose steps give different lines was executed
C9_Witness ==
    /\ RunReturned
    /\ ~last.failed
    /\ Len(last.results) >= 3
    /\ last.results[1] # last.results[2]
    /\ HasEntry(last.exec, 2, last.results)

\* the line the fixed mapping gives a step; a step without an action counts
\* as action "unknown", one without a target has the empty target
MappedLine(step) ==
    LET action == IF "action" \in DOMAIN step THEN step["action"] ELSE UnknownAction
        target == IF "target" \in DOMAIN step THEN step["target"] ELSE <<>>
    IN  CASE action = AnalyzeAction  -> AnalysisOf \o target
          [] action = ExecuteAction  -> Executed \o target
          [] action = ValidateAction -> Validated \o target
          [] OTHER -> Completed \o action \o OnText \o target

\* the lines of steps from step i on, numbered
RECURSIVE NumberedLines(_, _)
NumberedLines(steps, i) ==
    IF i > Len(steps) THEN <<>>
    ELSE DecimalText(i) \o OrdinalSep \o MappedLine(steps[i]) \o Newline
         \o NumberedLines(steps, i + 1)

\* C10 as claimed: for a plan of any number of steps, also none, the text
\* of executePlan holds one numbered line per step, given by the fixed
\* mapping, and ends with "Task completed successfully.".
C10_AnyPlanEndsCompleted ==
    (RunReturned /\ ~last.failed) =>
        /\ last.exec = StepsHeader \o NumberedLines(LastSteps, 1) \o TaskCompleted
        /\ EndsWith(last.exec, CompletionSentence)

\* C10 as amended: for a plan of at least one step the text is the header,
\* one numbered line per step given by the fixed mapping, and the
\* completion sentence; for a plan without steps it is "No results to
\* synthesize".
C10_PlanTextBySteps ==
    (RunReturned /\ ~last.failed) =>
        IF LastSteps = <<>>
        THEN last.exec = NoResults
        ELSE /\ last.exec = StepsHeader \o NumberedLines(LastSteps, 1) \o TaskCompleted
             /\ EndsWith(last.exec, CompletionSentence)

\* a plan of ten steps, with every kind of action, was executed
C10_Witness ==
    /\ RunReturned
    /\ ~last.failed
    /\ Width(Len(LastSteps)) = 2
    /\ \E i, j, k, l \in 1..Len(LastSteps) :
           /\ StartsWith(last.results[i], AnalysisOf)
           /\ StartsWith(last.results[j], Executed)
           /\ StartsWith(last.results[k], Validated)
           /\ StartsWith(last.results[l], Completed)
    /\ EndsWith(last.exec, CompletionSentence)

\* a call on a DialogueAgentWithTools was made in this step, and it was op
\* on instance i
Called(op, i) == ncalls' = ncalls + 1 /\ last'.op = op /\ last'.agent = i

\* no tool of the list derives the name
Unnamed(held_tools, tool_name) ==
    \A k \in 1..Len(held_tools) : ToolName(held_tools[k]) # tool_name

\* C11: remove_tool called with a name that no tool the agent holds derives
\* returns False, raises nothing, and leaves the agent's tool list and its
\* pipeline's tool list as they were.
C11_UnknownNameIsNoOp ==
    [][\A i \in Instances :
           (Called("remove_tool", i) /\ Unnamed(ToolsOf(i), last'.tool_name)) =>
               /\ last'.ret = Returned(FALSE)
               /\ ToolsOf(i)' = ToolsOf(i)
               /\ PipelineToolsOf(i)' = PipelineToolsOf(i)]_vars

\* an agent that holds tools was asked to remove a name none of them has
C11_Witness ==
    /\ last.op = "remove_tool"
    /\ last.ret = Returned(FALSE)
    /\ Len(ToolsOf(last.agent)) >= 2
    /\ Unnamed(ToolsOf(last.agent), last.tool_name)

\* the name every name-deriving operation is to use: __name__, else str(tool)
DerivedName(tool) == IF "__name__" \in DOMAIN tool THEN tool["__name__"] ELSE ToolText(tool)

\* C12: a tool without a derivable name is never rejected: a send on an
\* agent that holds one, also one with a description and no __name__,
\* completes without an error inside, and get_available_tools names every
\* tool by __name__ or else by its string form.
C12_NamelessToolAccepted ==
    /\ (last.op = "send" /\ \E k \in 1..Len(PipelineToolsOf(last.agent)) :
                                "__name__" \notin DOMAIN PipelineToolsOf(last.agent)[k])
           => last.error = PyNone
    /\ \A i \in DOMAIN agents :
           \A k \in 1..Len(ToolsOf(i)) :
               GetAvailableTools(ToolsOf(i), agents[i].tool_usage_stats)[k].name =
                   DerivedName(ToolsOf(i)[k])

\* C13: the sequence get_memory returned is a snapshot: whatever is called
\* on the instance afterwards, the sequence the caller keeps still holds
\* what it held when it was returned.
C13_MemoryIsSnapshot == held.op = "held" => Deref(held.ref) = held.seen

\* C14: instances share no mutable state: a call of send, clear_history,
\* add_tool or remove_tool on one instance leaves the tool lists and the
\* histories of every other instance as they were, also when the instances
\* were built from the same tools list.
C14_InstancesShareNothing ==
    [][\A i \in Instances : \A j \in Instances \ {i} :
           (ncalls' = ncalls + 1 /\ last'.agent = i) =>
               /\ ToolsOf(j)' = ToolsOf(j)
               /\ PipelineToolsOf(j)' = PipelineToolsOf(j)
               /\ agents'[j].history = agents[j].history
               /\ agents'[j].dialogue_history = agents[j].dialogue_history]_vars

\* what get_tools_by_category(c) returns now
InCategory(c) == GetToolsByCategory(registered_tools, tool_categories, c)

\* C15: get_tools_by_category(c) returns the tools registered under c in
\* the order of their registration, and nothing for a category never used:
\* it is empty at first, and each register_tool(tool, c) puts tool at the
\* end of what it returns for c and changes nothing for another category.
C15_CategoryInRegistrationOrder ==
    [][\A c \in LookedUp :
           (ncalls' = ncalls + 1 /\ last'.op = "register_tool") =>
               InCategory(c)' = IF last'.category = c
                                THEN Append(InCategory(c), last'.tool)
                                ELSE InCategory(c)]_vars

\* C16: with the callers taking turns, the pipeline's history only grows at
\* its end: whatever a step does, the history before it is a prefix of the
\* history after it, unless the step is a clear_memory call, which leaves
\* it empty.
C16_HistoryAppendOnly ==
    [][\/ StartsWith(conversation_history', conversation_history)
       \/ /\ ClearMemory \/ AgentClearMemory
          /\ conversation_history' = <<>>]_vars

\* a second run call, with no clear_memory since the first, has added its
\* messages behind those of the first
C16_Witness ==
    /\ RunReturned
    /\ Len(last.histBefore) >= 2
    /\ IsStrictPrefix(last.histBefore, conversation_history)
    /\ Len(conversation_history) >= 4

\* a run or chat call returned in this step: it was made and did not
\* suspend, or it was resumed
CallReturns ==
    \/ nruns' = nruns + 1 /\ inflight' = inflight
    \/ nruns' = nruns /\ inflight' # inflight

\* a chat call returned in this step, by its normal path
ChatReturns == CallReturns /\ last'.op = "chat"

\* a chat call took its except branch in this step
ChatFails == CallReturns /\ last'.op = "chat_error"

\* a context given to an earlier call left something that is no message
\* in the pipeline's conversation_context
ContextSpoilt == \E k \in 1..Len(conversation_context) : conversation_context[k] = PyNone

\* C17: with memory enabled every chat call that returns by its normal
\* path appends one entry, that of the call, behind the entries of the
\* calls before it, and a call with a plain text message takes that path
\* unless a context given earlier spoilt the pipeline's context; so n calls
\* with plain text in a row on a fresh agent leave n entries in call
\* order. With memory disabled the memory stays empty.
C17_OneEntryPerChat ==
    /\ [](~memory_enabled => agent_history = <<>>)
    /\ [][(ChatFails /\ last'.context = PyNone) => ContextSpoilt]_vars
    /\ [][(ChatReturns /\ memory_enabled) =>
              agent_history' = Append(agent_history,
                                      [user_message |-> last'.message,
                                       agent_response |-> last'.ret.val,
                                       context |-> last'.context])]_vars

\* two chat calls with plain text have returned on an agent with memory,
\* which holds their two entries in call order
C17_Witness ==
    /\ JustReturned("chat")
    /\ memory_enabled
    /\ Len(agent_history) = 2
    /\ \A k \in 1..2 : agent_history[k].context = PyNone
    /\ agent_history[1].user_message # agent_history[2].user_message
    /\ agent_history[2].user_message = last.message

\* the callers whose chat call is suspended
Suspended == {t \in Tasks : inflight[t] # Idle}

\* C18: chat calls issued together on one ConversationalAgent all return:
\* a suspended call stays as it is, whatever the other calls do, until it
\* is resumed, and then it returns, as a text and without raising, the
\* response to its own message; no call is lost, and once all have
\* returned the memory, when enabled, holds one entry for each call.
C18_ConcurrentChatsAllAnswered ==
    /\ [](memory_enabled => Len(agent_history) + Cardinality(Suspended) = nruns)
    /\ [][\A t \in Tasks :
              (inflight[t] # Idle /\ inflight'[t] = Idle) =>
                  /\ last'.op = "chat"
                  /\ last'.message = inflight[t].message
                  /\ last'.input = inflight[t].input
                  /\ ~last'.ret.raised
                  /\ IsText(last'.ret.val)
                  /\ last'.ret.val = FormatConversationOutput(last'.run.val)
                  /\ memory_enabled =>
                         agent_history' = Append(agent_history,
                                                 ChatEntry(inflight[t].message,
                                                           last'.ret.val, PyNone))]_vars
    /\ [][\A t \in Suspended : inflight'[t] \in {inflight[t], Idle}]_vars

\* every caller had a chat call suspended at the same time, all have
\* returned, and the memory holds their entries
C18_Witness ==
    /\ JustReturned("get_memory")
    /\ memory_enabled
    /\ Suspends(backend)
    /\ nruns = MaxRuns
    /\ Len(agent_history) = MaxRuns
    /\ Len(conversation_history) >= 4
    /\ conversation_history[1].role = "user"
    /\ conversation_history[2].role = "user"

\* C19: ConversationalAgent.chat and DialogueAgentWithTools.send never raise
\* and return a text that is not empty, whatever the message (the empty one
\* included), the context, the tool list and the backend's answer, a
\* failing one included.
C19_EntryPointsAnswerText ==
    last.op \in {"chat", "chat_error", "send"} =>
        /\ ~last.ret.raised
        /\ IsText(last.ret.val)
        /\ Len(last.ret.val) > 0

\* send has returned its apology for a failure, to an empty message, on an
\* agent that holds tools
C19_Witness ==
    /\ last.op = "send"
    /\ last.error # PyNone
    /\ last.message = <<>>
    /\ ToolsOf(last.agent) # <<>>

\* what get_stats and get_available_tools report for instance i
ToolsCount(i) ==
    GetStats(AgentName(i), agents[i].dialogue_history, ToolsOf(i),
             agents[i].tool_usage_stats).tools_count

AvailableCount(i) == Len(GetAvailableTools(ToolsOf(i), agents[i].tool_usage_stats))

Removes(ret) == IF ret.raised THEN FALSE ELSE ret.val

\* C20: tools_count and the length of get_available_tools() start at the
\* number of tools given at construction, rise by exactly one with every
\* add_tool call on the agent, fall by one with every remove_tool call that
\* succeeds, and are left alone by one that does not.
C20_ToolsCountArithmetic ==
    /\ [](ncalls = 0 => \A i \in Instances :
              /\ ToolsCount(i) = Len(lists[GivenList])
              /\ AvailableCount(i) = Len(lists[GivenList]))
    /\ [][\A i \in Instances :
              /\ Called("add_tool", i) =>
                     /\ ToolsCount(i)' = ToolsCount(i) + 1
                     /\ AvailableCount(i)' = AvailableCount(i) + 1
              /\ Called("remove_tool", i) =>
                     /\ ToolsCount(i)' =
                            ToolsCount(i) - (IF Removes(last'.ret) THEN 1 ELSE 0)
                     /\ AvailableCount(i)' =
                            AvailableCount(i) - (IF Removes(last'.ret) THEN 1 ELSE 0)]_vars

\* C21: whatever the interleaving of run and clear_memory calls on one
\* pipeline, every assistant message in the history comes right after a
\* user message, and a run that records its response records it right
\* after its own user message.
C21_HistoryStaysPaired ==
    /\ [](\A k \in 1..Len(conversation_history) :
              conversation_history[k].role = "assistant" =>
                  /\ k > 1
                  /\ conversation_history[k - 1].role = "user")
    /\ [][\A t \in Tasks :
              (inflight[t] # Idle /\ inflight'[t] = Idle) =>
                  /\ Len(conversation_history') >= 2
                  /\ conversation_history'[Len(conversation_history') - 1] =
                         Message("user", inflight[t].input)]_vars

\* tool_name names the tool at index k of held_tools, and rest is held_tools
\* without that one entry
OneRemoved(held_tools, tool_name, rest) ==
    \E k \in 1..Len(held_tools) :
        /\ ToolName(held_tools[k]) = tool_name
        /\ rest = [j \in 1..(Len(held_tools) - 1) |->
                      IF j < k THEN held_tools[j] ELSE held_tools[j + 1]]

\* C22: remove_tool with the name of a tool the agent holds returns True,
\* does not raise, and takes exactly one occurrence of that tool out of the
\* agent's tool list and out of the pipeline's tool list, whether the tool
\* was given at construction or added by add_tool.
C22_HeldToolIsRemovedOnce ==
    [][\A i \in Instances :
          (Called("remove_tool", i) /\ ~Unnamed(ToolsOf(i), last'.tool_name)) =>
              /\ ~last'.ret.raised
              /\ last'.ret.val = TRUE
              /\ OneRemoved(ToolsOf(i), last'.tool_name, ToolsOf(i)')
              /\ OneRemoved(PipelineToolsOf(i), last'.tool_name, PipelineToolsOf(i)')]_vars

\* the input of the chat call that a step starts, where the step starts one
\* whose input gets formatted
StartedInput(t) ==
    IF inflight'[t] # Idle THEN inflight'[t].input ELSE last'.input

\* C23: after ConversationalAgent.clear_memory the agent's history, the
\* pipeline's history and the backend's conversation_context are empty,
\* and the input of a chat call made next without a context is formatted
\* from the system prompt and the new message alone.
C23_ClearMemoryForgetsAll ==
    /\ [](kind = "ConversationalAgent" /\ JustReturned("clear_memory") =>
              /\ agent_history = <<>>
              /\ conversation_history = <<>>
              /\ conversation_context = <<>>)
    /\ [][\A t \in Tasks :
              (/\ kind = "ConversationalAgent"
               /\ JustReturned("clear_memory")
               /\ nruns' = nruns + 1
               /\ inflight'[t] # Idle \/ last'.op = "chat"
               /\ (IF inflight'[t] # Idle THEN inflight'[t].context
                   ELSE last'.context) = PyNone) =>
                  /\ last'.op # "chat_error"
                  /\ StartedInput(t) =
                         FormatConversationInput(system_prompt, <<>>,
                             IF inflight'[t] # Idle THEN inflight'[t].message
                             ELSE last'.message).val]_vars

\* C24: the backend's conversation_context holds the messages of an
\* earlier exchange at most once: once n chat calls without a context
\* have been made one after the other, it has at most 2(n-1) entries.
C24_ContextHoldsExchangeOnce ==
    /\ nruns = 0 => conversation_context = <<>>
    /\ nruns > 0 => Len(conversation_context) <= 2 * (nruns - 1)

\* C25: a chat call whose workflow does not fail returns exactly the text
\* of the execute phase, the reflection suffix removed and every step line
\* and the completion sentence kept, whatever the message, the text
\* "[Reflection]" included.
C25_ChatReturnsExecuteText ==
    (last.op = "chat" /\ ~last.failed) => last.ret.val = last.exec

\* C26: a chat call that returns the apology because its context held a
\* malformed entry leaves the agent's history, the pipeline's history and
\* the backend's conversation_context as they were, and a chat call made
\* right after it without a context does not fail.
C26_FailedChatLeavesNoTrace ==
    /\ [][ChatFails =>
              /\ agent_history' = agent_history
              /\ conversation_history' = conversation_history
              /\ conversation_context' = conversation_context]_vars
    /\ [][(JustReturned("chat_error") /\ ChatFails) => last'.context # PyNone]_vars

===========================================================================
